---- MODULE Spec2Model ----
(***************************************************************************)
(* get-llvm: the dual-tier cache orchestrator ToolsGetter.get, run from    *)
(* main (src/src/get-llvm.ts).  One behaviour is one run of the action.    *)
(* The collaborators (@actions/tool-cache, @actions/cache, the downloader, *)
(* the extractor, llvm-config, pkg-config) are the environment: each call  *)
(* picks one of the outcomes the collaborator can produce, and is recorded *)
(* in the call log `calls`, as a mock of the collaborator would record it. *)
(***************************************************************************)
EXTENDS Integers, Sequences, FiniteSets, TLC

VARIABLES
    useCloudCache,     \* constructor parameter (get-llvm.ts:91)
    useLocalCache,     \* constructor parameter (get-llvm.ts:92)
    buildType,         \* constructor parameter (get-llvm.ts:93)
    arch,              \* process.arch
    platform,          \* process.platform
    RUNNER_TEMP,       \* process.env.RUNNER_TEMP, "" when unset
    hashResult,        \* what utils.hashCode returns for this run's file name
    pc,                \* position of the single thread of control
    hashedKey,         \* get(): let hashedKey            (option)
    outPath,           \* get(): let outPath              (option)
    cloudCacheHitKey,  \* get(): let cloudCacheHitKey     (option)
    localCacheHit,     \* get(): let localCacheHit
    localPath,         \* get(): let localPath            (option)
    llvmRootFolder,    \* get(): const llvmRootFolder     (option)
    calls,             \* log of the collaborator calls, in call order
    stages,            \* log of the stages of the run executed so far
    envPATH,           \* directories added with core.addPath
    envLLVM_DIR,       \* core.exportVariable("LLVM_DIR", ...)  (option)
    thrown,            \* name of the error being propagated, "" when none
    setFailed,         \* core.setFailed has been called
    exitCode,          \* process.exitCode                (option)
    hashA,             \* a hashed key given to convertHashToFakeSemver
    hashB,             \* another hashed key given to convertHashToFakeSemver
    semverA,           \* convertHashToFakeSemver(hashA), once computed (option)
    semverB,           \* convertHashToFakeSemver(hashB), once computed (option)
    assets,            \* ReleasesCollector.track: the asset list given to it
    pos,               \* track: index of the next asset of the list
    map,               \* ReleasesCollector.map, the release catalog
    mostRecentReleases,\* ReleasesCollector.mostRecentReleases
    trackCalls,        \* number of completed calls of track on the collector
    range,             \* matchRange: the requested token        (option)
    matched            \* matchRange: its outcome                (option)

vars == <<useCloudCache, useLocalCache, buildType, arch, platform, RUNNER_TEMP,
          hashResult, pc, hashedKey, outPath, cloudCacheHitKey, localCacheHit,
          localPath, llvmRootFolder, calls, stages, envPATH, envLLVM_DIR,
          thrown, setFailed, exitCode, hashA, hashB, semverA, semverB,
          assets, pos, map, mostRecentReleases, trackCalls, range, matched>>

(***************************************************************************)
(* Bounds of the model.                                                    *)
(***************************************************************************)
\* largest magnitude of a hashCode result
MaxHash == 11

\* the hashCode results a run is tried with: both signs, zero, one and two digits
HashValues == {-MaxHash, -1, 0, 1, MaxHash}

(***************************************************************************)
(* Values.  A `T | undefined` of the source is an option: <<>> is          *)
(* undefined, <<v>> is the value v.  A path is the tuple of its            *)
(* components; the empty string is the empty path <<>>.                    *)
(***************************************************************************)
None == <<>>

Some(v) == <<v>>

Val(o) == o[1]

\* JavaScript truthiness of a `string | undefined` holding a path.
Truthy(o) == o # None /\ Val(o) # <<>>

\* path.join(p, name)
PathJoin(p, name) == Append(p, name)

\* p lies under (or is) the directory q
IsUnder(p, q) == Len(q) <= Len(p) /\ SubSeq(p, 1, Len(q)) = q

Abs(n) == IF n < 0 THEN -n ELSE n

Digit(d) ==
    CASE d = 0 -> "0" [] d = 1 -> "1" [] d = 2 -> "2" [] d = 3 -> "3"
      [] d = 4 -> "4" [] d = 5 -> "5" [] d = 6 -> "6" [] d = 7 -> "7"
      [] d = 8 -> "8" [] d = 9 -> "9"

RECURSIVE NatToString(_)
NatToString(n) ==
    IF n < 10 THEN Digit(n) ELSE NatToString(n \div 10) \o Digit(n % 10)

\* Number.prototype.toString() of an integer: its decimal string.
NumberToString(n) == IF n < 0 THEN "-" \o NatToString(-n) ELSE NatToString(n)

\* The string a sequence of string pieces spells.
RECURSIVE StringOf(_)
StringOf(pieces) ==
    IF pieces = <<>> THEN "" ELSE Head(pieces) \o StringOf(Tail(pieces))

\* String.prototype.replace(piece, ""): drops the first occurrence of piece.
RECURSIVE ReplaceFirst(_, _)
ReplaceFirst(pieces, piece) ==
    IF pieces = <<>> THEN <<>>
    ELSE IF Head(pieces) = piece THEN Tail(pieces)
    ELSE <<Head(pieces)>> \o ReplaceFirst(Tail(pieces), piece)

(***************************************************************************)
(* Program constants and pure functions of get-llvm.ts.                    *)
(***************************************************************************)
llvmVersion == "20.1.6"

llvmBuildRelease == "20250717-163129"

LOCAL_CACHE_NAME == "local-llvm-cache"

DOWNLOAD_URL_PREFIX == "https://github.com/hylo-lang/llvm-build/releases/download"

Architectures == {"arm64", "x64", "ia32"}

Platforms == {"win32", "linux", "darwin", "freebsd"}

BuildTypes == {"MinSizeRel", "Debug"}

ArchSupported(a) == a \in {"arm64", "x64", "x32"}

PlatformSupported(p) == p \in {"win32", "linux", "darwin"}

\* getArchiveFileName: the pieces of the file name, in order.  The switch
\* reads process.arch, not the `architecture` parameter.
getArchiveFileName(version, plat, architecture, bt) ==
    <<"llvm-", version, "-",
      CASE arch = "arm64" -> "arm64"
        [] arch \in {"x64", "x32"} -> "x86_64",
      "-",
      CASE plat = "win32" -> "unknown-windows-msvc17"
        [] plat = "linux" -> "unknown-linux-gnu"
        [] plat = "darwin" -> "apple-darwin24.1.0",
      "-", bt, ".tar.zst">>

\* utils.hashCode: a deterministic hash of the string; its value for this
\* run's file name is an input of the run.
hashCode(str) == hashResult

\* mutant of convertHashToFakeSemver: the sign is dropped and not encoded
convertHashToFakeSemver_NoSign(h) == NatToString(Abs(h)) \o ".0.0"

convertHashToFakeSemver(h) ==
    NatToString(Abs(h)) \o (IF h > 0 THEN ".0.0" ELSE ".0.1")

\* tools.find on a hit: the tool-cache directory of (name, version, arch).
ToolCachePath(name, version, architecture) ==
    <<"/opt/hostedtoolcache", name, version, architecture>>

\* downloadLLVM: the download URL.
DownloadUrl(fileName) ==
    DOWNLOAD_URL_PREFIX \o "/" \o llvmBuildRelease \o "/" \o fileName

Call(op, key, plat, path, result) ==
    [op |-> op, key |-> key, platform |-> plat, path |-> path, result |-> result]

(***************************************************************************)
(* Semantic versions, as the semver package handles them.  A version is    *)
(* [major, minor, patch, prerelease], the prerelease a tuple of numeric    *)
(* identifiers.                                                            *)
(***************************************************************************)
SemVer(major, minor, patch, prerelease) ==
    [major |-> major, minor |-> minor, patch |-> patch, prerelease |-> prerelease]

RECURSIVE JoinDots(_)
JoinDots(ids) ==
    IF Len(ids) = 1 THEN NatToString(ids[1])
    ELSE NatToString(ids[1]) \o "." \o JoinDots(Tail(ids))

\* SemVer.version: the normalised version string
VersionString(v) ==
    NatToString(v.major) \o "." \o NatToString(v.minor) \o "."
       \o NatToString(v.patch)
       \o (IF v.prerelease = <<>> THEN "" ELSE "-" \o JoinDots(v.prerelease))

compareIdentifiers(a, b) == IF a = b THEN 0 ELSE IF a < b THEN -1 ELSE 1

\* SemVer.compareMain
compareMain(a, b) ==
    IF a.major # b.major THEN compareIdentifiers(a.major, b.major)
    ELSE IF a.minor # b.minor THEN compareIdentifiers(a.minor, b.minor)
    ELSE compareIdentifiers(a.patch, b.patch)

\* SemVer.comparePre, from identifier i on
RECURSIVE comparePreFrom(_, _, _)
comparePreFrom(a, b, i) ==
    IF i > Len(a) /\ i > Len(b) THEN 0
    ELSE IF i > Len(b) THEN 1
    ELSE IF i > Len(a) THEN -1
    ELSE IF a[i] = b[i] THEN comparePreFrom(a, b, i + 1)
    ELSE compareIdentifiers(a[i], b[i])

\* SemVer.comparePre: a version without prerelease is the greater one
comparePre(a, b) ==
    IF a.prerelease # <<>> /\ b.prerelease = <<>> THEN -1
    ELSE IF a.prerelease = <<>> /\ b.prerelease # <<>> THEN 1
    ELSE IF a.prerelease = <<>> /\ b.prerelease = <<>> THEN 0
    ELSE comparePreFrom(a.prerelease, b.prerelease, 1)

\* semver.compare(a, b)
compare(a, b) ==
    IF compareMain(a, b) # 0 THEN compareMain(a, b) ELSE comparePre(a, b)

(***************************************************************************)
(* Release tags.  A tag is [prefix, nums, prerelease]: the text before the *)
(* first number, the dot-separated numbers, the prerelease identifiers.    *)
(***************************************************************************)
Tag(prefix, nums, prerelease) ==
    [prefix |-> prefix, nums |-> nums, prerelease |-> prerelease]

TagText(t) ==
    t.prefix
       \o (IF t.nums = <<>> THEN "" ELSE JoinDots(t.nums))
       \o (IF t.prerelease = <<>> THEN "" ELSE "-" \o JoinDots(t.prerelease))

\* semver.parse(tag): an optional "v", then exactly major.minor.patch
parse(t) ==
    IF t.prefix \in {"", "v"} /\ Len(t.nums) = 3
      THEN Some(SemVer(t.nums[1], t.nums[2], t.nums[3], t.prerelease))
      ELSE None

\* mutant of coerce: a text without a number is coerced to 0.0.0
coerce_Zero(t) ==
    Some(SemVer(IF Len(t.nums) >= 1 THEN t.nums[1] ELSE 0,
                IF Len(t.nums) >= 2 THEN t.nums[2] ELSE 0,
                IF Len(t.nums) >= 3 THEN t.nums[3] ELSE 0,
                <<>>))

\* semver.coerce(tag): the first one to three numbers of the text, missing
\* parts are 0, the prerelease is dropped
coerce(t) ==
    IF t.nums = <<>> THEN None
    ELSE Some(SemVer(t.nums[1],
                     IF Len(t.nums) >= 2 THEN t.nums[2] ELSE 0,
                     IF Len(t.nums) >= 3 THEN t.nums[3] ELSE 0,
                     <<>>))

\* the tags assets are published with
Tags ==
    { Tag("", <<2, 0, 0>>, <<>>),        \* "2.0.0"
      Tag("v", <<2, 0, 0>>, <<>>),       \* "v2.0.0"
      Tag("", <<2, 1>>, <<>>),           \* "2.1"
      Tag("", <<2, 1, 0>>, <<1>>),       \* "2.1.0-1"
      Tag("", <<3, 0, 0>>, <<1>>),       \* "3.0.0-1"
      Tag("nightly", <<>>, <<>>) }       \* "nightly"

(***************************************************************************)
(* Assets and filters of the ReleasesCollector (releases-collector.ts,     *)
(* src/unnamed/part_003).  An asset name is [stem, suffix]: the text       *)
(* before its last part, and its last part.                                *)
(***************************************************************************)
LinuxSuffix == "-x86_64-unknown-linux-gnu-MinSizeRel.tar.zst"

DarwinSuffix == "-arm64-apple-darwin24.1.0-MinSizeRel.tar.zst"

\* String.prototype.toLowerCase on the name parts of the model
toLowerCase(str) ==
    CASE str \in {"-x86_64-unknown-linux-gnu-MinSizeRel.tar.zst",
                  "-x86_64-unknown-linux-gnu-minsizerel.tar.zst"}
           -> "-x86_64-unknown-linux-gnu-minsizerel.tar.zst"
      [] str \in {"-arm64-apple-darwin24.1.0-MinSizeRel.tar.zst",
                  "-ARM64-APPLE-DARWIN24.1.0-MINSIZEREL.TAR.ZST",
                  "-arm64-apple-darwin24.1.0-minsizerel.tar.zst"}
           -> "-arm64-apple-darwin24.1.0-minsizerel.tar.zst"
      [] str \in {"-SHA256SUMS.txt", "-sha256sums.txt"} -> "-sha256sums.txt"

\* mutant of endsWith: the suffix is not looked at
endsWith_Any(name, suffix) == TRUE

\* name.trim().toLowerCase().endsWith(suffix.toLowerCase())
endsWith(name, suffix) == toLowerCase(name.suffix) = toLowerCase(suffix)

ReleaseFilter(suffix, binPath, plat) ==
    [suffix |-> suffix, binPath |-> binPath, dropSuffix |-> ".tar.zst",
     platform |-> plat]

\* the filters the collector is constructed with, in declaration order
filters ==
    << ReleaseFilter(LinuxSuffix, "bin/", "linux"),
       ReleaseFilter(DarwinSuffix, "bin/", "darwin") >>

AssetNames ==
    { [stem |-> "llvm", suffix |-> LinuxSuffix],
      [stem |-> "LLVM", suffix |-> "-ARM64-APPLE-DARWIN24.1.0-MINSIZEREL.TAR.ZST"],
      [stem |-> "llvm", suffix |-> "-SHA256SUMS.txt"] }

Asset(name, tag) ==
    [name |-> name,
     browser_download_url |->
        DOWNLOAD_URL_PREFIX \o "/" \o TagText(tag) \o "/" \o name.stem
           \o name.suffix,
     tag_name |-> tag]

Assets == {Asset(n, t) : n \in AssetNames, t \in Tags}

\* VersionSelector
versionSelectors ==
    << [releaseKey |-> "latest", prereleaseAccepted |-> FALSE],
       [releaseKey |-> "latestrc", prereleaseAccepted |-> TRUE] >>

(***************************************************************************)
(* Maps: a JavaScript object or Map is a function on the set of its keys.  *)
(***************************************************************************)
EmptyMap == [k \in {} |-> k]

Has(m, k) == k \in DOMAIN m

\* m[k] = v
Put(m, k, v) == [x \in DOMAIN m \cup {k} |-> IF x = k THEN v ELSE m[x]]

\* m[k] ?? {}
GetOrEmpty(m, k) == IF Has(m, k) THEN m[k] ELSE EmptyMap

(***************************************************************************)
(* Outcomes of the collaborators.                                          *)
(***************************************************************************)
\* tools.find: a path on a hit, the empty string on a miss
FindOutcomes == {"hit", "miss"}

\* cache.restoreCache: the matched key, undefined, or a raised error
RestoreOutcomes == {"hit", "miss", "throw"}

\* cache.saveCache: a cache id, or one of the errors saveCache tells apart
SaveOutcomes == {"ok", "ValidationError", "ReserveCacheError", "Error"}

\* any other collaborator call: it returns or it raises
CallOutcomes == {"ok", "throw"}

\* makePkgConfig: also the version mismatch verifyPkgConfig reports
PkgConfigOutcomes == {"ok", "throw", "mismatch"}

(***************************************************************************)
(* The decisions of ToolsGetter.get, one operator per condition.           *)
(***************************************************************************)
\* mutant of NeedsRetrieval: the local hit does not short-circuit the retrieval
NeedsRetrieval_Always == TRUE

\* line 166: if (!localCacheHit)
NeedsRetrieval == ~localCacheHit

\* line 167: if (this.useCloudCache)
ShouldRestoreCloud == useCloudCache

\* mutant of restoreCache: a try/catch turns a raised error into a miss
restoreCache_Catching(outcome) == IF outcome = "throw" THEN "miss" ELSE outcome

\* restoreCache (457-462): the collaborator's outcome, passed on as it is;
\* the wrapper has no try/catch.
restoreCache(outcome) == outcome

\* mutant of ShouldDownload: the download is not conditional
ShouldDownload_Always(hitKey) == TRUE

\* line 184: if (cloudCacheHitKey === undefined), on the value just restored
ShouldDownload(hitKey) == hitKey = None

\* mutant of downloadLLVM: a download failure is swallowed
downloadLLVM_Catching(outcome) == "ok"

\* downloadLLVM (470-475): the downloader's outcome, passed on as it is.
downloadLLVM(outcome) == outcome

\* mutant of extract: an extraction failure is swallowed
extract_Catching(outcome) == "ok"

\* extract (464-467): the extractor's outcome, passed on as it is.
extract(outcome) == outcome

\* mutant of ShouldSaveCloud: the test of the restore result is inverted
ShouldSaveCloud_OnHit == useCloudCache /\ cloudCacheHitKey # None

\* mutant of ShouldSaveCloud: the restore result is not looked at
ShouldSaveCloud_Enabled == useCloudCache /\ ~localCacheHit

\* lines 205 and 212-217: the save group is entered when the cloud cache is
\* enabled and did not hit, and saves unless the local cache hit.
ShouldSaveCloud ==
    /\ useCloudCache /\ cloudCacheHitKey = None
    /\ ~localCacheHit
    /\ cloudCacheHitKey = None

\* mutant of SaveCacheRethrows: the reservation conflict is thrown again too
SaveCacheRethrows_Reserve(errorName) ==
    errorName \in {"ValidationError", "ReserveCacheError"}

\* mutant of SaveCacheRethrows: every error of the save is absorbed
SaveCacheRethrows_None(errorName) == FALSE

\* saveCache (444-454): which of the collaborator's errors is thrown again
SaveCacheRethrows(errorName) == errorName = "ValidationError"

\* mutant of ShouldSaveLocal: the local tier is populated on a full miss only
ShouldSaveLocal_FullMissOnly ==
    useLocalCache /\ ~localCacheHit /\ Truthy(localPath) /\ cloudCacheHitKey = None

\* mutant of RunnerTempMissing: the scratch root is not checked
RunnerTempMissing_Never == FALSE

\* getOutputPath, line 433: if (!process.env.RUNNER_TEMP)
RunnerTempMissing == RUNNER_TEMP = ""

\* mutant of ExitCodeOnFailure: a code the exit status truncates to zero
ExitCodeOnFailure_Wraps == -4 * 256

\* main, lines 554-556: process.exitCode = -1000; forceExit(-1000)
ExitCodeOnFailure == -1000

\* The exit status the parent process sees: the low eight bits of the code.
ExitStatus(code) == code % 256

\* line 230: if (this.useLocalCache && !localCacheHit && localPath)
ShouldSaveLocal == useLocalCache /\ ~localCacheHit /\ Truthy(localPath)

\* mutant of CacheDirVersion: the save uses the decimal string of the hash
CacheDirVersion_Decimal(h) == NumberToString(h)

\* lines 239-244: the version tools.cacheDir is given
CacheDirVersion(h) == convertHashToFakeSemver(h)

(***************************************************************************)
(* The state of the other components, idle during a run of get.            *)
(***************************************************************************)
keyVars == <<hashA, hashB, semverA, semverB>>

KeyIdle == hashA = 0 /\ hashB = 0 /\ semverA = None /\ semverB = None

catalogVars ==
    <<assets, pos, map, mostRecentReleases, trackCalls, range, matched>>

CatalogIdle ==
    /\ assets = <<>> /\ pos = 1 /\ map = EmptyMap
    /\ mostRecentReleases = EmptyMap /\ trackCalls = 0
    /\ range = None /\ matched = None

otherVars == <<keyVars, catalogVars>>

(***************************************************************************)
(* The run.                                                                *)
(***************************************************************************)
Init ==
    /\ useCloudCache \in BOOLEAN
    /\ useLocalCache \in BOOLEAN
    /\ buildType \in BuildTypes
    /\ arch \in Architectures
    /\ platform \in Platforms
    /\ RUNNER_TEMP \in {"", "/home/runner/work/_temp"}
    /\ hashResult \in HashValues
    /\ pc = "DeriveKey"
    /\ hashedKey = None
    /\ outPath = None
    /\ cloudCacheHitKey = None
    /\ localCacheHit = FALSE
    /\ localPath = None
    /\ llvmRootFolder = None
    /\ calls = <<>>
    /\ stages = <<>>
    /\ envPATH = {}
    /\ envLLVM_DIR = None
    /\ thrown = ""
    /\ setFailed = FALSE
    /\ exitCode = None
    /\ KeyIdle
    /\ CatalogIdle

config == <<useCloudCache, useLocalCache, buildType, arch, platform,
            RUNNER_TEMP, hashResult>>

mainVars == <<setFailed, exitCode>>

ArchiveFileName == getArchiveFileName(llvmVersion, platform, arch, buildType)

\* an error leaves get(): nothing after the throwing statement executes
Throw(errorName) == pc' = "Thrown" /\ thrown' = errorName

Goto(stage) == pc' = stage /\ thrown' = thrown

Enter(stage) == pc = stage /\ stages' = Append(stages, stage)

\* get-llvm.ts:118-145
DeriveKey ==
    /\ Enter("DeriveKey")
    /\ IF ~ArchSupported(arch) \/ ~PlatformSupported(platform)
         THEN /\ Throw("Error")
              /\ UNCHANGED <<hashedKey, outPath>>
         ELSE /\ hashedKey' = Some(hashCode(StringOf(ArchiveFileName)))
              /\ IF RunnerTempMissing
                   THEN Throw("Error") /\ UNCHANGED outPath
                   ELSE /\ outPath' = Some(PathJoin(<<RUNNER_TEMP>>,
                                              NumberToString(Val(hashedKey'))))
                        /\ Goto("LocalCheck")
    /\ UNCHANGED <<config, otherVars, cloudCacheHitKey, localCacheHit, localPath,
                   llvmRootFolder, calls, envPATH, envLLVM_DIR, mainVars>>

\* get-llvm.ts:147-164
LocalCheck ==
    /\ Enter("LocalCheck")
    /\ IF useLocalCache
         THEN \E r \in FindOutcomes :
                LET semver == convertHashToFakeSemver(Val(hashedKey))
                    found == IF r = "hit"
                               THEN ToolCachePath(LOCAL_CACHE_NAME, semver, platform)
                               ELSE <<>>
                IN /\ calls' = Append(calls,
                                 Call("tools.find", semver, platform, found, r))
                   /\ localPath' = Some(found)
                   /\ localCacheHit' = (found # <<>>)
         ELSE UNCHANGED <<calls, localPath, localCacheHit>>
    /\ Goto("RemoteCheck")
    /\ UNCHANGED <<config, otherVars, hashedKey, outPath, cloudCacheHitKey, llvmRootFolder,
                   envPATH, envLLVM_DIR, mainVars>>

\* get-llvm.ts:166-184
RemoteCheck ==
    /\ Enter("RemoteCheck")
    /\ IF ~NeedsRetrieval
         THEN Goto("Resolve") /\ UNCHANGED <<calls, cloudCacheHitKey>>
         ELSE IF ~ShouldRestoreCloud
           THEN /\ Goto(IF ShouldDownload(cloudCacheHitKey)
                          THEN "Download" ELSE "Resolve")
                /\ UNCHANGED <<calls, cloudCacheHitKey>>
           ELSE \E o \in RestoreOutcomes :
                  LET r == restoreCache(o)
                      key == NumberToString(Val(hashedKey))
                  IN /\ calls' = Append(calls,
                          Call("cache.restoreCache", key, "", Val(outPath), o))
                     /\ IF r = "throw"
                          THEN Throw("Error") /\ UNCHANGED cloudCacheHitKey
                          ELSE /\ cloudCacheHitKey' =
                                    (IF r = "hit" THEN Some(key) ELSE None)
                               /\ Goto(IF ShouldDownload(cloudCacheHitKey')
                                         THEN "Download" ELSE "Resolve")
    /\ UNCHANGED <<config, otherVars, hashedKey, outPath, localCacheHit, localPath,
                   llvmRootFolder, envPATH, envLLVM_DIR, mainVars>>

\* get-llvm.ts:185, 481, 470-475
Download ==
    /\ Enter("Download")
    /\ \E o \in CallOutcomes :
         /\ calls' = Append(calls,
               Call("tools.downloadTool", DownloadUrl(StringOf(ArchiveFileName)),
                    "", <<>>, o))
         /\ IF downloadLLVM(o) = "throw" THEN Throw("Error") ELSE Goto("Extract")
    /\ UNCHANGED <<config, otherVars, hashedKey, outPath, cloudCacheHitKey, localCacheHit,
                   localPath, llvmRootFolder, envPATH, envLLVM_DIR, mainVars>>

\* get-llvm.ts:483, 464-467
Extract ==
    /\ Enter("Extract")
    /\ \E o \in CallOutcomes :
         /\ calls' = Append(calls,
               Call("tools.extractTar", "", "", Val(outPath), o))
         /\ IF extract(o) = "throw" THEN Throw("Error") ELSE Goto("Resolve")
    /\ UNCHANGED <<config, otherVars, hashedKey, outPath, cloudCacheHitKey, localCacheHit,
                   localPath, llvmRootFolder, envPATH, envLLVM_DIR, mainVars>>

\* get-llvm.ts:188-199
Resolve ==
    /\ Enter("Resolve")
    /\ localPath' = IF NeedsRetrieval THEN outPath ELSE localPath
    /\ IF ~Truthy(localPath')
         THEN Throw("Error") /\ UNCHANGED llvmRootFolder
         ELSE /\ llvmRootFolder' =
                   Some(PathJoin(Val(outPath),
                          StringOf(ReplaceFirst(ArchiveFileName, ".tar.zst"))))
              /\ Goto("AddLLVMBinToPath")
    /\ UNCHANGED <<config, otherVars, hashedKey, outPath, cloudCacheHitKey, localCacheHit,
                   calls, envPATH, envLLVM_DIR, mainVars>>

\* get-llvm.ts:200, 416-430
AddLLVMBinToPath ==
    /\ Enter("AddLLVMBinToPath")
    /\ envPATH' = envPATH \cup {PathJoin(Val(llvmRootFolder), "bin")}
    /\ \E o \in CallOutcomes :
         /\ calls' = Append(calls, Call("io.which", "llvm-config", "", <<>>, o))
         /\ IF o = "throw" THEN Throw("Error") ELSE Goto("AddLLVMDirVariable")
    /\ UNCHANGED <<config, otherVars, hashedKey, outPath, cloudCacheHitKey, localCacheHit,
                   localPath, llvmRootFolder, envLLVM_DIR, mainVars>>

\* get-llvm.ts:201, 250-256
AddLLVMDirVariable ==
    /\ Enter("AddLLVMDirVariable")
    /\ envLLVM_DIR' =
         Some(PathJoin(PathJoin(PathJoin(Val(llvmRootFolder), "lib"), "cmake"),
                       "llvm"))
    /\ Goto("MakePkgConfig")
    /\ UNCHANGED <<config, otherVars, hashedKey, outPath, cloudCacheHitKey, localCacheHit,
                   localPath, llvmRootFolder, calls, envPATH, mainVars>>

\* get-llvm.ts:202, 258-282, 493-526
MakePkgConfig ==
    /\ Enter("MakePkgConfig")
    /\ \E o \in PkgConfigOutcomes :
         /\ calls' = Append(calls,
               Call("pkg-config", "llvm", "",
                    PathJoin(Val(llvmRootFolder), "pkg-config"), o))
         /\ IF o = "ok"
              THEN Goto("SaveCloud") /\ UNCHANGED setFailed
              ELSE /\ Throw("Error")
                   /\ setFailed' = (setFailed \/ o = "mismatch")
    /\ UNCHANGED <<config, otherVars, hashedKey, outPath, cloudCacheHitKey, localCacheHit,
                   localPath, llvmRootFolder, envPATH, envLLVM_DIR, exitCode>>

\* get-llvm.ts:205-228, 440-455
SaveCloud ==
    /\ Enter("SaveCloud")
    /\ IF ShouldSaveCloud
         THEN \E o \in SaveOutcomes :
                /\ calls' = Append(calls,
                      Call("cache.saveCache", NumberToString(Val(hashedKey)), "",
                           Val(outPath), o))
                /\ IF o # "ok" /\ SaveCacheRethrows(o)
                     THEN Throw(o)
                     ELSE Goto("SaveLocal")
         ELSE Goto("SaveLocal") /\ UNCHANGED calls
    /\ UNCHANGED <<config, otherVars, hashedKey, outPath, cloudCacheHitKey, localCacheHit,
                   localPath, llvmRootFolder, envPATH, envLLVM_DIR, mainVars>>

\* get-llvm.ts:230-248
SaveLocal ==
    /\ Enter("SaveLocal")
    /\ IF ShouldSaveLocal
         THEN \E o \in CallOutcomes :
                /\ calls' = Append(calls,
                      Call("tools.cacheDir",
                           CacheDirVersion(Val(hashedKey)), platform,
                           Val(localPath), o))
                /\ IF o = "throw" THEN Throw("Error") ELSE Goto("Returned")
         ELSE Goto("Returned") /\ UNCHANGED calls
    /\ UNCHANGED <<config, otherVars, hashedKey, outPath, cloudCacheHitKey, localCacheHit,
                   localPath, llvmRootFolder, envPATH, envLLVM_DIR, mainVars>>

\* main, get-llvm.ts:544-546: run() returned
MainSucceed ==
    /\ Enter("Returned")
    /\ exitCode' = Some(0)
    /\ Goto("Succeeded")
    /\ UNCHANGED <<config, otherVars, hashedKey, outPath, cloudCacheHitKey, localCacheHit,
                   localPath, llvmRootFolder, calls, envPATH, envLLVM_DIR,
                   setFailed>>

\* main, get-llvm.ts:547-557: run() threw
MainCatch ==
    /\ Enter("Thrown")
    /\ setFailed' = TRUE
    /\ exitCode' = Some(ExitCodeOnFailure)
    /\ Goto("Failed")
    /\ UNCHANGED <<config, otherVars, hashedKey, outPath, cloudCacheHitKey, localCacheHit,
                   localPath, llvmRootFolder, calls, envPATH, envLLVM_DIR>>

Next ==
    \/ DeriveKey
    \/ LocalCheck
    \/ RemoteCheck
    \/ Download
    \/ Extract
    \/ Resolve
    \/ AddLLVMBinToPath
    \/ AddLLVMDirVariable
    \/ MakePkgConfig
    \/ SaveCloud
    \/ SaveLocal
    \/ MainSucceed
    \/ MainCatch

Spec == Init /\ [][Next]_vars

(***************************************************************************)
(* What the call log and the stage log tell about the run.                 *)
(***************************************************************************)
CallsOf(op) == {i \in DOMAIN calls : calls[i].op = op}

Count(op) == Cardinality(CallsOf(op))

\* every call of op1 precedes every call of op2
Precedes(op1, op2) == \A i \in CallsOf(op1), j \in CallsOf(op2) : i < j

Returned(op, result) == \E i \in CallsOf(op) : calls[i].result = result

LocalHit == Returned("tools.find", "hit")

RemoteHit == Returned("cache.restoreCache", "hit")

Executed(stage) == \E i \in DOMAIN stages : stages[i] = stage

\* main has finished
Ended == pc \in {"Succeeded", "Failed"}

TypeOK ==
    /\ pc \in {"DeriveKey", "LocalCheck", "RemoteCheck", "Download", "Extract",
               "Resolve", "AddLLVMBinToPath", "AddLLVMDirVariable",
               "MakePkgConfig", "SaveCloud", "SaveLocal", "Returned", "Thrown",
               "Succeeded", "Failed"}
    /\ localCacheHit \in BOOLEAN
    /\ setFailed \in BOOLEAN
    /\ (pc = "Thrown") => (thrown # "")

\* get() has returned normally
GetReturned == pc \in {"Returned", "Succeeded"}

\* get() has thrown
GetThrew == pc \in {"Thrown", "Failed"}

(***************************************************************************)
(* Tier precedence and population policy of ToolsGetter.get.               *)
(***************************************************************************)
\* C1: with both tiers enabled, once tools.find has returned a non-empty
\* path the remote tier is never touched (no cache.restoreCache call and no
\* cache.saveCache call at any point of the run); and in every run every
\* tools.find call comes before every cache.restoreCache call.
C1_LocalHitSkipsRemote ==
    /\ (useLocalCache /\ useCloudCache /\ LocalHit) =>
          Count("cache.restoreCache") = 0 /\ Count("cache.saveCache") = 0
    /\ Precedes("tools.find", "cache.restoreCache")

C1_Witness ==
    useLocalCache /\ useCloudCache /\ LocalHit /\ pc = "Succeeded"

\* C2: when get() returns after a full miss (no tools.find hit and no
\* cache.restoreCache hit, whichever tiers are enabled), the download and the
\* extraction were each called exactly once, in that order, then
\* cache.saveCache exactly once if the cloud cache is enabled (else never),
\* then tools.cacheDir exactly once if the local cache is enabled (else
\* never); and no run calls any of the four more than once.
C2_ExactlyOncePopulation ==
    /\ (GetReturned /\ ~LocalHit /\ ~RemoteHit) =>
          /\ Count("tools.downloadTool") = 1
          /\ Count("tools.extractTar") = 1
          /\ Count("cache.saveCache") = (IF useCloudCache THEN 1 ELSE 0)
          /\ Count("tools.cacheDir") = (IF useLocalCache THEN 1 ELSE 0)
          /\ Precedes("tools.downloadTool", "tools.extractTar")
          /\ Precedes("tools.extractTar", "cache.saveCache")
          /\ Precedes("tools.extractTar", "tools.cacheDir")
          /\ Precedes("cache.saveCache", "tools.cacheDir")
    /\ \A op \in {"tools.downloadTool", "tools.extractTar", "cache.saveCache",
                  "tools.cacheDir"} : Count(op) <= 1

C2_Witness ==
    /\ useLocalCache /\ useCloudCache /\ pc = "Succeeded"
    /\ Returned("tools.find", "miss") /\ Returned("cache.restoreCache", "miss")
    /\ Count("cache.saveCache") = 1 /\ Count("tools.cacheDir") = 1

\* C3: cache.saveCache is called only if the cloud cache is enabled and the
\* run hit neither the local nor the cloud tier; with both tiers enabled, a
\* local miss followed by a cloud hit gives exactly one cache.restoreCache
\* call, no download and no cache.saveCache call.
C3_RemoteSaveOnlyOnFullMiss ==
    /\ Count("cache.saveCache") > 0 =>
          useCloudCache /\ ~LocalHit /\ ~RemoteHit
    /\ (useLocalCache /\ useCloudCache /\ Returned("tools.find", "miss")
          /\ RemoteHit) =>
          /\ Count("cache.restoreCache") = 1
          /\ Count("tools.downloadTool") = 0
          /\ Count("cache.saveCache") = 0

C3_Witness ==
    /\ useLocalCache /\ useCloudCache /\ Returned("tools.find", "miss")
    /\ RemoteHit /\ Executed("SaveCloud") /\ pc = "Succeeded"

C5_NothingStoredOnHit ==
    (LocalHit \/ RemoteHit) =>
       Count("cache.saveCache") = 0 /\ Count("tools.cacheDir") = 0

\* C6: a hit in either tier implies that neither the download nor the
\* extraction is ever called; and once the retrieval part of get() is over
\* (line 188 reached), download and extraction have both been called exactly
\* when no tier hit (local lookup empty or disabled, cloud restore undefined
\* or disabled).
C6_DownloadIffNoHit ==
    /\ (LocalHit \/ RemoteHit) =>
          Count("tools.downloadTool") = 0 /\ Count("tools.extractTar") = 0
    /\ Executed("Resolve") =>
          ((Count("tools.downloadTool") = 1 /\ Count("tools.extractTar") = 1)
             <=> (~LocalHit /\ ~RemoteHit))
    /\ Count("tools.extractTar") <= Count("tools.downloadTool")

C6_Witness ==
    /\ ~useLocalCache /\ useCloudCache /\ Returned("cache.restoreCache", "miss")
    /\ Executed("Resolve") /\ Count("tools.extractTar") = 1

(***************************************************************************)
(* Error handling of ToolsGetter.get and main.                             *)
(***************************************************************************)
RestoreThrew == Returned("cache.restoreCache", "throw")

\* C7, as claimed: a failure raised by cache.restoreCache is handled like a
\* miss, so a run in which the restore raised has, by its end, gone on to
\* the download.
C7_RestoreFailureIsAMiss ==
    (RestoreThrew /\ Ended) => Count("tools.downloadTool") = 1

\* C7, amended: a failure raised by cache.restoreCache is not caught: it
\* leaves get(), nothing is downloaded, extracted or saved in that run, and
\* main reports failure.  Only an undefined result of the restore is a miss:
\* a run that returns after it has downloaded and extracted once and has
\* populated the enabled tiers.
C7_RestoreFailurePropagates ==
    /\ RestoreThrew =>
          /\ GetThrew
          /\ \A op \in {"tools.downloadTool", "tools.extractTar",
                        "cache.saveCache", "tools.cacheDir"} : Count(op) = 0
          /\ Ended => (setFailed /\ exitCode = Some(-1000))
    /\ (Returned("cache.restoreCache", "miss") /\ GetReturned) =>
          /\ Count("tools.downloadTool") = 1
          /\ Count("tools.extractTar") = 1
          /\ Count("cache.saveCache") = 1
          /\ Count("tools.cacheDir") = (IF useLocalCache THEN 1 ELSE 0)

C7_Witness == RestoreThrew /\ useLocalCache /\ pc = "Failed"

SaveFailedWith(errorName) == Returned("cache.saveCache", errorName)

\* C8: when cache.saveCache fails with a reservation conflict or with any
\* error other than a validation error, the error does not leave saveCache:
\* the run goes on to the local population stage, where tools.cacheDir is
\* called exactly once if the local cache is enabled and did not hit, and the
\* run cannot end in failure unless that later local save itself raises;
\* when it ends it has exit code 0 and no failure has been reported.
C8_SaveFailureAbsorbed ==
    (SaveFailedWith("ReserveCacheError") \/ SaveFailedWith("Error")) =>
       /\ pc = "SaveLocal" \/ Executed("SaveLocal")
       /\ Executed("SaveLocal") =>
             Count("tools.cacheDir") =
                (IF useLocalCache /\ ~LocalHit THEN 1 ELSE 0)
       /\ GetThrew => Returned("tools.cacheDir", "throw")
       /\ thrown \notin {"ReserveCacheError", "ValidationError"}
       /\ (Ended /\ ~Returned("tools.cacheDir", "throw")) =>
             (pc = "Succeeded" /\ exitCode = Some(0) /\ ~setFailed)

C8_Witness ==
    /\ SaveFailedWith("ReserveCacheError") /\ useLocalCache
    /\ Returned("tools.cacheDir", "ok") /\ pc = "Succeeded"

\* C9: when cache.saveCache fails with a validation error, the error leaves
\* saveCache and get(): the local population stage is not executed,
\* tools.cacheDir is not called, and main ends with setFailed called and a
\* non-zero exit code.
C9_ValidationErrorPropagates ==
    SaveFailedWith("ValidationError") =>
       /\ GetThrew
       /\ thrown = "ValidationError"
       /\ ~Executed("SaveLocal")
       /\ Count("tools.cacheDir") = 0
       /\ Ended => (pc = "Failed" /\ setFailed /\ Val(exitCode) # 0)

C9_Witness ==
    SaveFailedWith("ValidationError") /\ useLocalCache /\ pc = "Failed"

TransferFailed ==
    Returned("tools.downloadTool", "throw") \/ Returned("tools.extractTar", "throw")

\* C10: if the download or the extraction fails, get() throws at once: no
\* later stage is executed (after a failed download not even the
\* extraction), neither cache.saveCache nor tools.cacheDir is called, and the
\* run ends in failure.
C10_TransferFailureAborts ==
    TransferFailed =>
       /\ GetThrew
       /\ Returned("tools.downloadTool", "throw") => Count("tools.extractTar") = 0
       /\ \A st \in {"Resolve", "AddLLVMBinToPath", "AddLLVMDirVariable",
                     "MakePkgConfig", "SaveCloud", "SaveLocal", "Returned"} :
             ~Executed(st)
       /\ Count("cache.saveCache") = 0 /\ Count("tools.cacheDir") = 0
       /\ llvmRootFolder = None /\ envPATH = {}
       /\ Ended => (pc = "Failed" /\ setFailed /\ Val(exitCode) # 0)

C10_Witness ==
    /\ Returned("tools.extractTar", "throw") /\ useLocalCache /\ useCloudCache
    /\ pc = "Failed"

\* C11: main ends with exit status 0 if and only if run() returned without
\* throwing; an error thrown anywhere in the run stays in flight until
\* main's catch, and the run then ends with setFailed called and a non-zero
\* exit status; a successful end has reported no failure.
C11_ExitStatusReflectsErrors ==
    /\ thrown # "" => GetThrew
    /\ GetThrew => thrown # ""
    /\ Ended =>
          /\ (ExitStatus(Val(exitCode)) = 0) <=> (pc = "Succeeded")
          /\ (pc = "Succeeded") <=> (Executed("Returned") /\ thrown = "")
          /\ thrown # "" => (setFailed /\ ExitStatus(Val(exitCode)) # 0)
          /\ pc = "Succeeded" => ~setFailed

C11_Witness ==
    pc = "Failed" /\ Returned("tools.cacheDir", "throw") /\ setFailed

\* C12: when RUNNER_TEMP is not set, get() throws while deriving the key:
\* no collaborator is ever called (no local lookup, no restore, no download,
\* no save), the output path is never set, no stage is executed twice, and
\* the only thing that follows the failed stage is main's catch.
C12_MissingScratchRootFailsFirst ==
    (RUNNER_TEMP = "" /\ pc # "DeriveKey") =>
       /\ GetThrew
       /\ calls = <<>>
       /\ outPath = None
       /\ stages \in {<<"DeriveKey">>, <<"DeriveKey", "Thrown">>}
       /\ Ended => (setFailed /\ ExitStatus(Val(exitCode)) # 0)

C12_Witness ==
    /\ RUNNER_TEMP = "" /\ ArchSupported(arch) /\ PlatformSupported(platform)
    /\ useLocalCache /\ useCloudCache /\ pc = "Failed"

(***************************************************************************)
(* The cache key deriver: convertHashToFakeSemver on its own.              *)
(***************************************************************************)
\* a ToolsGetter on which get() is not running
GetIdle ==
    /\ useCloudCache = TRUE /\ useLocalCache = FALSE /\ buildType = "MinSizeRel"
    /\ arch = "x64" /\ platform = "linux" /\ RUNNER_TEMP = ""
    /\ hashResult = 0 /\ pc = "Idle"
    /\ hashedKey = None /\ outPath = None /\ cloudCacheHitKey = None
    /\ localCacheHit = FALSE /\ localPath = None /\ llvmRootFolder = None
    /\ calls = <<>> /\ stages = <<>> /\ envPATH = {} /\ envLLVM_DIR = None
    /\ thrown = "" /\ setFailed = FALSE /\ exitCode = None

getVars == <<config, pc, hashedKey, outPath, cloudCacheHitKey, localCacheHit,
             localPath, llvmRootFolder, calls, stages, envPATH, envLLVM_DIR,
             thrown, mainVars>>

Hashes == -MaxHash .. MaxHash

KeyInit ==
    /\ GetIdle
    /\ hashA \in Hashes /\ hashB \in Hashes
    /\ semverA = None /\ semverB = None
    /\ CatalogIdle

\* get-llvm.ts:486-491, called on two hashed keys
ConvertHashes ==
    /\ semverA = None
    /\ semverA' = Some(convertHashToFakeSemver(hashA))
    /\ semverB' = Some(convertHashToFakeSemver(hashB))
    /\ UNCHANGED <<getVars, hashA, hashB, catalogVars>>

KeyNext == ConvertHashes

SpecKey == KeyInit /\ [][KeyNext]_vars

\* C13: for every integer hash h, convertHashToFakeSemver(h) is the decimal
\* string of abs(h) followed by ".0.0" when h >= 0 (h = 0 included) and by
\* ".0.1" when h < 0.
C13_FakeSemverBySign ==
    semverA # None =>
       Val(semverA) =
          NatToString(Abs(hashA)) \o (IF hashA >= 0 THEN ".0.0" ELSE ".0.1")

\* C14: convertHashToFakeSemver is injective: two distinct hashes, a hash
\* and its negation in particular, never get the same fake semver.
C14_FakeSemverInjective ==
    (semverA # None /\ semverB # None /\ hashA # hashB) =>
       Val(semverA) # Val(semverB)

C14_Witness ==
    /\ semverA # None /\ semverB # None
    /\ hashA = -hashB /\ hashA > 9

(***************************************************************************)
(* ReleasesCollector.track (src/unnamed/part_003, lines 107-165).  The     *)
(* collector's state is [map, mostRecentReleases].                         *)
(***************************************************************************)
\* line 115: semver.parse(asset.tag_name) || semver.coerce(asset.tag_name)
TagVersion(t) == IF parse(t) # None THEN parse(t) ELSE coerce(t)

\* lines 116-121
Release(asset, filter) ==
    [url |-> asset.browser_download_url, fileName |-> asset.name,
     binPath |-> filter.binPath, dropSuffix |-> filter.dropSuffix]

\* line 135
isCurrentVersionPrerelease(version) == Len(version.prerelease) > 0

\* mutant of SelectorAccepts: a selector accepts versions of either class
SelectorAccepts_Any(key, version) == TRUE

\* line 136: key.prereleaseAccepted === isCurrentVersionPrerelease
SelectorAccepts(key, version) ==
    key.prereleaseAccepted = isCurrentVersionPrerelease(version)

\* mutant of IsMostRecent: the comparison is the wrong way round
IsMostRecent_Oldest(latestOf, plat, version) ==
    ~Has(latestOf, plat) \/ compare(version, latestOf[plat]) <= 0

\* mutant of IsMostRecent: an equal version does not replace the recorded one
IsMostRecent_Strict(latestOf, plat, version) ==
    ~Has(latestOf, plat) \/ compare(version, latestOf[plat]) > 0

\* mutant of IsMostRecent: the first version recorded is kept
IsMostRecent_FirstOnly(latestOf, plat, version) == ~Has(latestOf, plat)

\* line 137: !latest || semver.compare(version, latest.mostRecentVersion) >= 0
IsMostRecent(latestOf, plat, version) ==
    ~Has(latestOf, plat) \/ compare(version, latestOf[plat]) >= 0

\* lines 131-145: one version selector, for the release just inserted
TrackSelector(st, key, version, plat) ==
    LET mrr == IF Has(st.mostRecentReleases, key.releaseKey)
                 THEN st.mostRecentReleases
                 ELSE Put(st.mostRecentReleases, key.releaseKey, EmptyMap)
        latestOf == mrr[key.releaseKey]
    IN IF SelectorAccepts(key, version) /\ IsMostRecent(latestOf, plat, version)
         THEN [map |-> Put(st.map, key.releaseKey,
                           Put(GetOrEmpty(st.map, key.releaseKey), plat,
                               st.map[VersionString(version)][plat])),
               mostRecentReleases |->
                  Put(mrr, key.releaseKey, Put(latestOf, plat, version))]
         ELSE [map |-> st.map, mostRecentReleases |-> mrr]

\* lines 129-146: the selectors, in declaration order, from selector i on
RECURSIVE TrackSelectorsFrom(_, _, _, _)
TrackSelectorsFrom(st, i, version, plat) ==
    IF i > Len(versionSelectors) THEN st
    ELSE TrackSelectorsFrom(TrackSelector(st, versionSelectors[i], version, plat),
                            i + 1, version, plat)

\* mutant of TrackFilter: the selectors mirror the entry before the release
\* just built is inserted, so they see what an earlier call left there
TrackFilter_MirrorBeforeInsert(st, asset, filter) ==
    IF ~endsWith(asset.name, filter.suffix) THEN st
    ELSE LET version == TagVersion(asset.tag_name)
         IN IF version = None THEN st
            ELSE LET key == VersionString(Val(version))
                     mirrored ==
                        IF Has(st.map, key) /\ Has(st.map[key], filter.platform)
                          THEN TrackSelectorsFrom(st, 1, Val(version),
                                                  filter.platform)
                          ELSE st
                 IN [map |-> Put(mirrored.map, key,
                                 Put(GetOrEmpty(mirrored.map, key),
                                     filter.platform, Release(asset, filter))),
                     mostRecentReleases |-> mirrored.mostRecentReleases]

\* lines 113-153: one (asset, filter) pair
TrackFilter(st, asset, filter) ==
    IF ~endsWith(asset.name, filter.suffix) THEN st
    ELSE LET version == TagVersion(asset.tag_name)
         IN IF version = None THEN st
            ELSE LET key == VersionString(Val(version))
                     inserted ==
                        [map |-> Put(st.map, key,
                                     Put(GetOrEmpty(st.map, key), filter.platform,
                                         Release(asset, filter))),
                         mostRecentReleases |-> st.mostRecentReleases]
                 IN TrackSelectorsFrom(inserted, 1, Val(version), filter.platform)

\* lines 112-154: the filters, in declaration order, from filter i on
RECURSIVE TrackFiltersFrom(_, _, _)
TrackFiltersFrom(st, asset, i) ==
    IF i > Len(filters) THEN st
    ELSE TrackFiltersFrom(TrackFilter(st, asset, filters[i]), asset, i + 1)

\* lines 110-159: the assets of the list, in list order, from asset i on
RECURSIVE TrackAssetsFrom(_, _, _)
TrackAssetsFrom(st, list, i) ==
    IF i > Len(list) THEN st
    ELSE TrackAssetsFrom(TrackFiltersFrom(st, list[i], 1), list, i + 1)

\* track(assets) on a collector in state st
track(st, list) == TrackAssetsFrom(st, list, 1)

(***************************************************************************)
(* ToolsGetter.matchRange (get-llvm.ts, lines 373-411) and the semver      *)
(* ranges it hands to maxSatisfying.  A token is [op, version, name]: a    *)
(* version with an operator in front, or a plain name.                     *)
(***************************************************************************)
VersionRange(op, version) == [op |-> op, version |-> version, name |-> ""]

NameToken(name) == [op |-> "name", version |-> SemVer(0, 0, 0, <<>>), name |-> name]

RangeText(tok) ==
    IF tok.op = "name" THEN tok.name ELSE tok.op \o VersionString(tok.version)

\* the tokens a version is requested with
Tokens ==
    { VersionRange("", SemVer(2, 0, 0, <<>>)),      \* "2.0.0"
      VersionRange("", SemVer(2, 1, 0, <<1>>)),     \* "2.1.0-1"
      VersionRange("^", SemVer(2, 0, 0, <<>>)),     \* "^2.0.0"
      VersionRange("~", SemVer(2, 0, 0, <<>>)),     \* "~2.0.0"
      VersionRange("^", SemVer(3, 0, 0, <<>>)),     \* "^3.0.0"
      NameToken("latest"),
      NameToken("latestrc"),
      NameToken("latest-prerelease") }

\* shared.getArchitecturePlatform (part_003, lines 53-59)
getArchitecturePlatform ==
    IF platform = "linux" /\ arch = "arm64" THEN "linux-arm64"
    ELSE IF platform = "win32" /\ arch = "arm64" THEN "win32-arm64"
    ELSE platform

\* the versions whose version string a catalog key can be
SemVers ==
    {SemVer(ma, mi, 0, pre) : ma \in 0 .. 3, mi \in 0 .. 1, pre \in {<<>>, <<1>>}}

\* new SemVer(release): the version a key spells, undefined when it spells none
ParseKey(key) ==
    IF \E v \in SemVers : VersionString(v) = key
      THEN Some(CHOOSE v \in SemVers : VersionString(v) = key)
      ELSE None

\* new Range(range): the comparators of the range, undefined when the text
\* is no range
Comparator(operator, version) == [operator |-> operator, semver |-> version]

Comparators(tok) ==
    LET v == tok.version
        caretUpper ==
           IF v.major > 0 THEN SemVer(v.major + 1, 0, 0, <<0>>)
           ELSE IF v.minor > 0 THEN SemVer(0, v.minor + 1, 0, <<0>>)
           ELSE SemVer(0, 0, v.patch + 1, <<0>>)
    IN CASE tok.op = "" -> Some({Comparator("=", v)})
         [] tok.op = "^" ->
              Some({Comparator(">=", v), Comparator("<", caretUpper)})
         [] tok.op = "~" ->
              Some({Comparator(">=", v),
                    Comparator("<", SemVer(v.major, v.minor + 1, 0, <<0>>))})
         [] OTHER -> None

\* Comparator.test
ComparatorTest(c, version) ==
    CASE c.operator = "=" -> compare(version, c.semver) = 0
      [] c.operator = ">=" -> compare(version, c.semver) >= 0
      [] c.operator = "<" -> compare(version, c.semver) < 0

\* Range.test: every comparator holds, and a prerelease version is accepted
\* only if a comparator names a prerelease of the same major.minor.patch
Satisfies(version, comparators) ==
    /\ \A c \in comparators : ComparatorTest(c, version)
    /\ version.prerelease # <<>> =>
          \E c \in comparators :
             /\ c.semver.prerelease # <<>>
             /\ compareMain(c.semver, version) = 0

\* mutant of KeepsCandidate: the smallest satisfying version is kept
KeepsCandidate_Min(max, v) == max = None \/ compare(Val(max), v) = 1

\* maxSatisfying: keeps v when max is unset or compares below v
KeepsCandidate(max, v) == max = None \/ compare(Val(max), v) = -1

\* semver.maxSatisfying(versions, range), over the versions not yet visited
RECURSIVE MaxSatisfyingFrom(_, _, _)
MaxSatisfyingFrom(max, rest, comparators) ==
    IF rest = {} THEN max
    ELSE LET v == CHOOSE x \in rest : TRUE
         IN MaxSatisfyingFrom(
               IF Satisfies(v, comparators) /\ KeepsCandidate(max, v)
                 THEN Some(v) ELSE max,
               rest \ {v}, comparators)

maxSatisfying(versions, tok) ==
    IF Comparators(tok) = None THEN None
    ELSE MaxSatisfyingFrom(None, versions, Val(Comparators(tok)))

\* mutant of ExactLookupSucceeds: the lookup is made under the wrong key
ExactLookupSucceeds_Never(theCatalog, text) == FALSE

\* lines 380-389: the token is a key of the catalog and its entry has a
\* package for the target platform
ExactLookupSucceeds(theCatalog, text) ==
    Has(theCatalog, text) /\ Has(theCatalog[text], getArchitecturePlatform)

\* lines 394-401: the keys that are strict semantic versions
CollectSemvers(theCatalog) ==
    {Val(ParseKey(k)) : k \in {x \in DOMAIN theCatalog : ParseKey(x) # None}}

\* mutant of matchRange: without a match, the stable selector is returned
matchRange_BestEffort(theCatalog, tok) ==
    IF ExactLookupSucceeds(theCatalog, RangeText(tok))
      THEN [threw |-> FALSE, value |-> RangeText(tok), token |-> RangeText(tok),
            rangeSearched |-> FALSE]
      ELSE LET match == maxSatisfying(CollectSemvers(theCatalog), tok)
           IN [threw |-> FALSE,
               value |-> IF match = None THEN "latest"
                         ELSE VersionString(Val(match)),
               token |-> RangeText(tok), rangeSearched |-> TRUE]

\* matchRange: [threw, value, token, rangeSearched]
matchRange(theCatalog, tok) ==
    IF ExactLookupSucceeds(theCatalog, RangeText(tok))
      THEN [threw |-> FALSE, value |-> RangeText(tok), token |-> RangeText(tok),
            rangeSearched |-> FALSE]
      ELSE LET match == maxSatisfying(CollectSemvers(theCatalog), tok)
           IN IF match = None
                THEN [threw |-> TRUE, value |-> "Cannot match", 
                      token |-> RangeText(tok), rangeSearched |-> TRUE]
                ELSE [threw |-> FALSE, value |-> VersionString(Val(match)),
                      token |-> RangeText(tok), rangeSearched |-> TRUE]

(***************************************************************************)
(* The catalog builder and the version resolver: track ingests an asset    *)
(* list into an empty collector, then matchRange resolves a token against  *)
(* the catalog built.                                                      *)
(***************************************************************************)
\* bound: the longest asset list given to track
MaxAssets == 2

RECURSIVE SeqsUpTo(_, _)
SeqsUpTo(S, n) ==
    IF n = 0 THEN {<<>>}
    ELSE LET shorter == SeqsUpTo(S, n - 1)
         IN shorter \cup {Append(q, x) : q \in {r \in shorter : Len(r) = n - 1},
                                         x \in S}

\* the host the resolver runs on
Hosts == {<<"linux", "x64">>, <<"linux", "arm64">>, <<"darwin", "arm64">>}

CatalogInit ==
    /\ useCloudCache = TRUE /\ useLocalCache = FALSE /\ buildType = "MinSizeRel"
    /\ \E h \in Hosts : platform = h[1] /\ arch = h[2]
    /\ RUNNER_TEMP = "" /\ hashResult = 0 /\ pc = "Idle"
    /\ hashedKey = None /\ outPath = None /\ cloudCacheHitKey = None
    /\ localCacheHit = FALSE /\ localPath = None /\ llvmRootFolder = None
    /\ calls = <<>> /\ stages = <<>> /\ envPATH = {} /\ envLLVM_DIR = None
    /\ thrown = "" /\ setFailed = FALSE /\ exitCode = None
    /\ KeyIdle
    /\ assets \in SeqsUpTo(Assets, MaxAssets)
    /\ pos = 1
    /\ map = EmptyMap
    /\ mostRecentReleases = EmptyMap
    /\ trackCalls = IF assets = <<>> THEN 1 ELSE 0
    /\ range = None
    /\ matched = None

\* part_003:110-159: one iteration of the loop over the assets
TrackAsset ==
    /\ pos <= Len(assets)
    /\ LET st == TrackFiltersFrom(
                    [map |-> map, mostRecentReleases |-> mostRecentReleases],
                    assets[pos], 1)
       IN /\ map' = st.map
          /\ mostRecentReleases' = st.mostRecentReleases
    /\ pos' = pos + 1
    /\ trackCalls' = IF pos' > Len(assets) THEN 1 ELSE 0
    /\ UNCHANGED <<getVars, keyVars, assets, range, matched>>

\* part_003:107-165: track called once more with the same asset list, on
\* the collector the first call has filled
TrackAgain ==
    /\ trackCalls = 1
    /\ matched = None
    /\ LET st == track([map |-> map, mostRecentReleases |-> mostRecentReleases],
                       assets)
       IN /\ map' = st.map
          /\ mostRecentReleases' = st.mostRecentReleases
    /\ trackCalls' = 2
    /\ UNCHANGED <<getVars, keyVars, assets, pos, range, matched>>

\* get-llvm.ts:373-411, on the catalog one call of track has built
MatchRange ==
    /\ trackCalls = 1
    /\ matched = None
    /\ \E tok \in Tokens :
         /\ range' = Some(tok)
         /\ matched' = Some(matchRange(map, tok))
    /\ UNCHANGED <<getVars, keyVars, assets, pos, map, mostRecentReleases,
                   trackCalls>>

CatalogNext == TrackAsset \/ TrackAgain \/ MatchRange

SpecCatalog == CatalogInit /\ [][CatalogNext]_vars

(***************************************************************************)
(* The version resolver: properties of matchRange.                         *)
(***************************************************************************)
Resolved == matched # None /\ ~Val(matched).threw

\* the catalog entry of key k has an artifact for the target platform
HasTargetArtifact(k) == Has(map, k) /\ Has(map[k], getArchitecturePlatform)

\* the versions the catalog keys spell that satisfy the requested token
Candidates ==
    IF Comparators(Val(range)) = None THEN {}
    ELSE {v \in SemVers : /\ Has(map, VersionString(v))
                          /\ Satisfies(v, Val(Comparators(Val(range))))}

\* C15: whenever matchRange returns a key, in the exact/alias phase or in
\* the range phase, the catalog entry of that key has an artifact for the
\* target platform.
C15_ResolvedKeyHasTargetArtifact ==
    Resolved => HasTargetArtifact(Val(matched).value)

\* C16: if the requested token is itself a catalog key (a version or a
\* selector name) whose entry has an artifact for the target platform,
\* matchRange returns the token unchanged and does not search by range.
C16_ExactLookupFirst ==
    (matched # None /\ HasTargetArtifact(RangeText(Val(range)))) =>
       /\ ~Val(matched).threw
       /\ Val(matched).value = RangeText(Val(range))
       /\ ~Val(matched).rangeSearched

C16_Witness ==
    /\ Resolved /\ RangeText(Val(range)) = "2.0.0"
    /\ Val(matched).value = "2.0.0" /\ ~Val(matched).rangeSearched
    /\ Has(map, "2.1.0") /\ Has(map, "latest")

\* C17: when the exact/alias lookup does not succeed, the result is the
\* greatest, in semver order, of the catalog keys that are strict semantic
\* versions and satisfy the requested range, and a failure when there is
\* none; the keys that are no versions (the selector names) are neither
\* candidates nor a cause of failure.
C17_RangePhaseReturnsMaximum ==
    (matched # None /\ ~HasTargetArtifact(RangeText(Val(range)))) =>
       /\ Val(matched).rangeSearched
       /\ IF Candidates = {}
            THEN Val(matched).threw
            ELSE /\ ~Val(matched).threw
                 /\ \E m \in Candidates :
                      /\ \A c \in Candidates : compare(m, c) >= 0
                      /\ Val(matched).value = VersionString(m)

C17_Witness ==
    /\ Resolved /\ RangeText(Val(range)) = "^2.0.0"
    /\ Val(matched).value = "2.1.0"
    /\ Has(map, "2.0.0") /\ Has(map, "latest") /\ Has(map, "2.1.0")

\* C18: matchRange fails, with an error naming the requested token and
\* without returning any key, whenever the token is not a catalog key with an
\* artifact for the target platform and no catalog version satisfies it as a
\* range; requesting "latest" when the entry "latest" has no artifact for
\* the target platform fails.
C18_NoMatchFails ==
    /\ (matched # None /\ ~HasTargetArtifact(RangeText(Val(range)))
          /\ Candidates = {}) =>
          /\ Val(matched).threw
          /\ Val(matched).token = RangeText(Val(range))
          /\ ~Has(map, Val(matched).value)
    /\ (matched # None /\ RangeText(Val(range)) = "latest"
          /\ ~HasTargetArtifact("latest")) => Val(matched).threw

C18_Witness ==
    /\ matched # None /\ Val(matched).threw
    /\ RangeText(Val(range)) = "latest"
    /\ Has(map, "latest") /\ getArchitecturePlatform = "darwin"
    /\ Has(map, "2.0.0")

(***************************************************************************)
(* The catalog builder: properties of track.                               *)
(***************************************************************************)
\* some configured filter for platform p matches the asset's name
MatchesPlatform(asset, p) ==
    \E i \in DOMAIN filters :
       filters[i].platform = p /\ endsWith(asset.name, filters[i].suffix)

\* the assets ingested so far for platform p whose tag gave a version of
\* the given class (prerelease or not)
IngestedFor(p, prerelease) ==
    {i \in 1 .. (pos - 1) :
        /\ MatchesPlatform(assets[i], p)
        /\ TagVersion(assets[i].tag_name) # None
        /\ (Val(TagVersion(assets[i].tag_name)).prerelease # <<>>) = prerelease}

VersionOfAsset(i) == Val(TagVersion(assets[i].tag_name))

\* those of the assets I whose version is the greatest of I
GreatestOf(I) ==
    {i \in I : \A j \in I : compare(VersionOfAsset(i), VersionOfAsset(j)) >= 0}

\* catalog[selector][p] is the artifact of one of the assets I
MirrorsOneOf(selector, p, I) ==
    /\ Has(map, selector) /\ Has(map[selector], p)
    /\ \E i \in I :
         /\ map[selector][p].url = assets[i].browser_download_url
         /\ map[selector][p].fileName = assets[i].name

CatalogPlatforms == {"linux", "darwin"}

\* C19: after any number of assets ingested, in any order, for every
\* platform p for which a non-prerelease version was ingested,
\* catalog["latest"][p] is the artifact of an asset of the greatest
\* non-prerelease version ingested for p, hence never that of a prerelease.
C19_LatestIsMaxStable ==
    \A p \in CatalogPlatforms :
       IngestedFor(p, FALSE) # {} =>
          MirrorsOneOf("latest", p, GreatestOf(IngestedFor(p, FALSE)))

C19_Witness ==
    /\ pos > Len(assets)
    /\ IngestedFor("linux", FALSE) # {} /\ IngestedFor("linux", TRUE) # {}
    /\ Has(map, "3.0.0-1") /\ Has(map, "latest")

\* C20, as claimed: the prerelease selector is named "latest-prerelease":
\* for every platform p for which a prerelease version was ingested,
\* catalog["latest-prerelease"][p] is the artifact of the greatest
\* prerelease version ingested for p.
C20_LatestPrereleaseSelector ==
    \A p \in CatalogPlatforms :
       IngestedFor(p, TRUE) # {} =>
          MirrorsOneOf("latest-prerelease", p, GreatestOf(IngestedFor(p, TRUE)))

\* C20, amended: the two selectors are named "latest" and "latestrc", and
\* no other key of the catalog or of the MostRecent index is a selector; for
\* every platform p for which a prerelease version was ingested,
\* catalog["latestrc"][p] is the artifact of an asset of the greatest
\* prerelease version ingested for p, hence never that of a stable version.
C20_LatestRcIsMaxPrerelease ==
    /\ DOMAIN mostRecentReleases \subseteq {"latest", "latestrc"}
    /\ \A k \in DOMAIN map : ParseKey(k) = None => k \in {"latest", "latestrc"}
    /\ \A p \in CatalogPlatforms :
          IngestedFor(p, TRUE) # {} =>
             MirrorsOneOf("latestrc", p, GreatestOf(IngestedFor(p, TRUE)))

C20_Witness ==
    /\ pos > Len(assets) /\ Len(assets) = 2
    /\ IngestedFor("linux", TRUE) = {1, 2}
    /\ VersionOfAsset(1) # VersionOfAsset(2)

\* the state of a collector: the catalog and the MostRecent index
Collector == [map |-> map, mostRecentReleases |-> mostRecentReleases]

EmptyCollector == [map |-> EmptyMap, mostRecentReleases |-> EmptyMap]

\* the assets track has been through in its first call
Ingested == 1 .. (pos - 1)

\* the name of the asset ends, whatever the case of its letters, with the
\* suffix of a configured filter whose platform is p
NameEndsWithSuffixFor(asset, p) ==
    \E i \in DOMAIN filters :
       /\ filters[i].platform = p
       /\ toLowerCase(asset.name.suffix) = toLowerCase(filters[i].suffix)

\* C21: at every point of the ingestion of any asset list into an empty
\* catalog, an artifact is under catalog[v][p] for an exact version v only if
\* some ingested asset has a name ending, case-insensitively, with the suffix
\* of a configured filter of platform p and a tag that parsed to v; the url
\* and fileName of the entry are those of such an asset.
C21_EntryOnlyFromMatchingAsset ==
    \A k \in DOMAIN map :
       ParseKey(k) # None =>
          \A p \in DOMAIN map[k] :
             \E i \in Ingested :
                /\ NameEndsWithSuffixFor(assets[i], p)
                /\ TagVersion(assets[i].tag_name) # None
                /\ VersionString(VersionOfAsset(i)) = k
                /\ map[k][p].url = assets[i].browser_download_url
                /\ map[k][p].fileName = assets[i].name

C21_Witness ==
    /\ trackCalls = 1 /\ Len(assets) = 2
    /\ assets[1].name.suffix = "-SHA256SUMS.txt"
    /\ assets[1].tag_name = assets[2].tag_name
    /\ assets[2].name.stem = "LLVM"
    /\ DOMAIN map["2.1.0"] = {"darwin"}

\* the tag has no number in it: neither semver.parse nor semver.coerce gives
\* a version
Unparseable(t) == t.nums = <<>>

\* the assets of the list before position n whose tag gives a version
RECURSIVE ParseableBefore(_)
ParseableBefore(n) ==
    IF n <= 1 THEN <<>>
    ELSE IF Unparseable(assets[n - 1].tag_name)
           THEN ParseableBefore(n - 1)
           ELSE Append(ParseableBefore(n - 1), assets[n - 1])

\* C22: at every point of a call of track, the catalog and the MostRecent
\* index are what the ingestion of the assets gone through so far gives when
\* the assets with an unparseable tag are left out of the list: such an
\* asset changes nothing, raises nothing, and the assets after it are
\* ingested as if it were absent.
C22_UnparseableTagSkipped ==
    trackCalls <= 1 => Collector = track(EmptyCollector, ParseableBefore(pos))

C22_Witness ==
    /\ trackCalls = 1 /\ Len(assets) = 2
    /\ Unparseable(assets[1].tag_name)
    /\ NameEndsWithSuffixFor(assets[1], "linux")
    /\ NameEndsWithSuffixFor(assets[2], "linux")
    /\ Has(map, "latestrc") /\ Has(map["latestrc"], "linux")

\* the last of the ingested assets matching platform p that yield the
\* version of asset i
LastOfItsVersion(i, p) ==
    \A j \in Ingested :
       (/\ NameEndsWithSuffixFor(assets[j], p)
        /\ TagVersion(assets[j].tag_name) = TagVersion(assets[i].tag_name))
          => j <= i

\* the selector of the class (prerelease or not) of a version
SelectorOf(v) == IF v.prerelease = <<>> THEN "latest" ELSE "latestrc"

\* C23: when several ingested assets matching the same platform p yield the
\* same version v, catalog[v][p] is the artifact of the last of them, and so
\* is the selector slot of the class of v for p when v is the greatest
\* version of that class ingested for p.
C23_LaterAssetWins ==
    trackCalls <= 1 =>
       \A p \in CatalogPlatforms : \A i \in Ingested :
          (/\ NameEndsWithSuffixFor(assets[i], p)
           /\ TagVersion(assets[i].tag_name) # None
           /\ LastOfItsVersion(i, p)) =>
             LET v == VersionOfAsset(i)
                 sameClass == IngestedFor(p, v.prerelease # <<>>)
             IN /\ map[VersionString(v)][p].url = assets[i].browser_download_url
                /\ (\A j \in sameClass : compare(v, VersionOfAsset(j)) >= 0)
                      => map[SelectorOf(v)][p].url
                            = assets[i].browser_download_url

C23_Witness ==
    /\ trackCalls = 1 /\ Len(assets) = 2
    /\ NameEndsWithSuffixFor(assets[1], "linux")
    /\ NameEndsWithSuffixFor(assets[2], "linux")
    /\ VersionString(VersionOfAsset(1)) = "2.0.0"
    /\ VersionString(VersionOfAsset(2)) = "2.0.0"
    /\ assets[1].browser_download_url # assets[2].browser_download_url
    /\ map["latest"]["linux"].url = assets[2].browser_download_url
    /\ map["2.0.0"]["linux"].url = assets[2].browser_download_url

\* C24: for every asset list A, after track(A) has been called twice the
\* catalog (exact-version entries and selector entries) and the MostRecent
\* index are what one call of track(A) on the empty collector gives.
C24_TrackIdempotent ==
    trackCalls = 2 => Collector = track(EmptyCollector, assets)

C24_Witness ==
    /\ trackCalls = 2 /\ Len(assets) = 2
    /\ Has(map, "latest") /\ Has(map, "latestrc")
    /\ Has(map, "3.0.0-1") /\ Has(map, "2.1.0")

\* the keys of the catalog that are selector names, not versions
SelectorKeys == {k \in DOMAIN map : ParseKey(k) = None}

\* C26: after every step of track, every selector entry mirrors an
\* exact-version entry: when catalog[s][p] is present for a selector s, the
\* MostRecent index has a version v for (s, p), catalog[v][p] is present and
\* catalog[s][p] equals it, also after a later asset has overwritten
\* catalog[v][p].
C26_SelectorMirrorsExactEntry ==
    \A s \in SelectorKeys : \A p \in DOMAIN map[s] :
       /\ Has(mostRecentReleases, s) /\ Has(mostRecentReleases[s], p)
       /\ LET k == VersionString(mostRecentReleases[s][p])
          IN /\ Has(map, k) /\ Has(map[k], p)
             /\ map[s][p] = map[k][p]

C26_Witness ==
    /\ trackCalls = 1 /\ Len(assets) = 2
    /\ NameEndsWithSuffixFor(assets[1], "darwin")
    /\ NameEndsWithSuffixFor(assets[2], "darwin")
    /\ TagVersion(assets[1].tag_name) = TagVersion(assets[2].tag_name)
    /\ assets[1].browser_download_url # assets[2].browser_download_url
    /\ Has(map, "latest") /\ map["latest"]["darwin"] = map["2.0.0"]["darwin"]
    /\ map["2.0.0"]["darwin"].url = assets[2].browser_download_url

(***************************************************************************)
(* The run of ToolsGetter.get as a whole: its stages, its key, its result. *)
(***************************************************************************)
\* the stage of the run a collaborator call belongs to: 1 LocalCheck,
\* 2 RemoteCheck, 3 and 4 DownloadAndExtract, 5 PopulateRemote,
\* 6 PopulateLocal; 0 for the calls that belong to none of them
StageOfCall(op) ==
    CASE op = "tools.find" -> 1
      [] op = "cache.restoreCache" -> 2
      [] op = "tools.downloadTool" -> 3
      [] op = "tools.extractTar" -> 4
      [] op = "cache.saveCache" -> 5
      [] op = "tools.cacheDir" -> 6
      [] OTHER -> 0

StageCalls == {i \in DOMAIN calls : StageOfCall(calls[i].op) > 0}

\* a tier has hit or the archive has been downloaded and extracted, before
\* call j
RetrievedBefore(j) ==
    \E i \in 1 .. (j - 1) :
       \/ calls[i].op \in {"tools.find", "cache.restoreCache"}
            /\ calls[i].result = "hit"
       \/ /\ calls[i].op = "tools.extractTar" /\ calls[i].result = "ok"
          /\ \E d \in 1 .. (i - 1) :
                calls[d].op = "tools.downloadTool" /\ calls[d].result = "ok"

\* C25: in every run the key is derived first and once, every stage that
\* executes (LocalCheck, RemoteCheck, DownloadAndExtract, PopulateRemote,
\* PopulateLocal, seen by their collaborator calls) executes at most once and
\* in that order, and no population call is made before a tier has hit or
\* the download and the extraction have succeeded.
C25_StagesLinear ==
    /\ Cardinality({i \in DOMAIN stages : stages[i] = "DeriveKey"}) <= 1
    /\ stages # <<>> => stages[1] = "DeriveKey"
    /\ \A i, j \in DOMAIN stages : i # j => stages[i] # stages[j]
    /\ StageCalls # {} => hashedKey # None
    /\ \A i, j \in StageCalls :
          i < j => StageOfCall(calls[i].op) < StageOfCall(calls[j].op)
    /\ \A j \in StageCalls :
          StageOfCall(calls[j].op) >= 5 => RetrievedBefore(j)

C25_Witness ==
    /\ pc = "Succeeded"
    /\ Cardinality(StageCalls) = 6

\* C27: within a run the key, once computed, is the hash of the archive
\* file name and stays so; the local lookup and the local save are made
\* under the same version and the host platform; the remote restore and the
\* remote save are made under the decimal string of the hash; the output
\* root is the scratch root joined with that decimal string.
C27_OneKeyPerRun ==
    /\ hashedKey \in {None, Some(hashResult)}
    /\ \A i \in CallsOf("tools.find") \cup CallsOf("tools.cacheDir") :
          /\ calls[i].platform = platform
          /\ \A j \in CallsOf("tools.find") \cup CallsOf("tools.cacheDir") :
                calls[i].key = calls[j].key
    /\ \A i \in CallsOf("cache.restoreCache") \cup CallsOf("cache.saveCache") :
          calls[i].key = NumberToString(hashResult)
    /\ outPath # None =>
          Val(outPath) = <<RUNNER_TEMP, NumberToString(hashResult)>>

C27_Witness ==
    /\ pc = "Succeeded" /\ hashResult < -9
    /\ Count("tools.find") = 1 /\ Count("tools.cacheDir") = 1
    /\ Count("cache.restoreCache") = 1 /\ Count("cache.saveCache") = 1

\* C28: when get() has returned, the LLVM root folder, the directory added
\* to PATH and LLVM_DIR lie under the directory the artifact was obtained in:
\* the path tools.find returned on a local hit, the output root otherwise.
C28_RootUnderObtainedDir ==
    GetReturned =>
       LET obtained ==
              IF LocalHit
                THEN calls[CHOOSE i \in CallsOf("tools.find") : TRUE].path
                ELSE Val(outPath)
       IN /\ IsUnder(Val(llvmRootFolder), obtained)
          /\ \A d \in envPATH : IsUnder(d, obtained)
          /\ IsUnder(Val(envLLVM_DIR), obtained)

====
